---- MODULE Spec2Model ----
(***************************************************************************)
(* A model of prefect._internal.concurrency.workers: the deferred Call,   *)
(* the Worker thread with its event loop, and the global worker.          *)
(*                                                                         *)
(* Client threads execute submit() and get_global_worker() one source     *)
(* line at a time, so that every interleaving the interpreter allows      *)
(* between two threads is a behaviour of the model.  A worker's loop is   *)
(* a FIFO queue of callbacks; the loop thread runs one callback at a      *)
(* time.  concurrent.futures.Future is modelled by its state machine.     *)
(***************************************************************************)
EXTENDS Naturals, Sequences, FiniteSets, TLC

\* Bound of the model: how many submit() calls are begun in one behaviour.
MaxSubmits == 3

Calls == {"c1", "c2"}
\* Bound of the model: how many Worker objects exist in one behaviour.
MaxWorkers == 3

Workers == 1..MaxWorkers
\* "no worker": the None of GLOBAL_WORKER and of a thread's locals.
NoWorker == 0
Threads == {"t1", "t2"}
\* What a wrapped function may return, and what it may raise: one class
\* below Exception, one directly below BaseException.
Values == {"v1", "v2"}
Exceptions == {"ValueError", "KeyboardInterrupt"}
None == "None"

VARIABLES
    \* Call.future: state, result, exception, done callbacks (the workers
    \* whose shutdown() the callback calls)
    fstate, fresult, fexc, callbacks,
    \* the asyncio task wrapping Call._run_async, and the loop that owns it
    task, taskLoop,
    \* history of a call: invocations of fn, what fn (or its coroutine)
    \* raised, what escaped from run() to the loop, what fn (or its
    \* coroutine) returned
    invoked, raised, runRaised, returned,
    \* Worker fields
    wstate, shutdown_event, loopref, ready_future, run_once, daemon,
    submitted_count,
    \* the loop's ready queue, and the call whose run() the loop is inside
    ready, wcur,
    \* history of a worker: the calls scheduled onto its loop by
    \* call_soon_threadsafe, in order; the shutdown() calls on it that are
    \* kept track of: what each found in _shutdown_event and how it ended
    scheduled, shutdowns,
    \* client threads: position, arguments and locals, outcome of the last
    \* operation
    tpc, targW, targC, tmp, tres,
    \* number of submit() calls begun
    nsubmits,
    \* the module global; per thread, what get_global_worker saw at its
    \* check, the worker it constructed and the worker it returned
    GLOBAL_WORKER, gseen, gnew, gret

callVars == <<fstate, fresult, fexc, callbacks, task, taskLoop, invoked, raised, runRaised, returned>>
workerVars == <<wstate, shutdown_event, loopref, ready_future, run_once, daemon, submitted_count, ready, wcur, scheduled, shutdowns>>
threadVars == <<tpc, targW, targC, tmp, tres, nsubmits>>
registryVars == <<GLOBAL_WORKER, gseen, gnew, gret>>
vars == <<callVars, workerVars, threadVars, registryVars>>

(***************************************************************************)
(* concurrent.futures.Future                                              *)
(***************************************************************************)
DoneStates == {"CANCELLED", "CANCELLED_AND_NOTIFIED", "FINISHED"}
CancelledStates == {"CANCELLED", "CANCELLED_AND_NOTIFIED"}

\* A mutant of RunGuard: the future is not consulted at all.
RunGuardNoCheck(st) == [state |-> st, ret |-> "True"]

\* A mutant of RunGuard: only asks future.cancelled().
RunGuardCancelledOnly(st) ==
    IF st \in CancelledStates
    THEN [state |-> "CANCELLED_AND_NOTIFIED", ret |-> "False"]
    ELSE [state |-> IF st = "PENDING" THEN "RUNNING" ELSE st, ret |-> "True"]

\* future.set_running_or_notify_cancel(), the guard of run(): the state it
\* leaves and what it returns ("raise": RuntimeError, future in unexpected
\* state).
RunGuard(st) ==
    CASE st = "CANCELLED" -> [state |-> "CANCELLED_AND_NOTIFIED", ret |-> "False"]
      [] st = "PENDING" -> [state |-> "RUNNING", ret |-> "True"]
      [] OTHER -> [state |-> st, ret |-> "raise"]

\* A mutant of SkipsExecution: run() goes on whatever the guard returned.
SkipsExecutionNever(ret) == FALSE

\* "if not self.future.set_running_or_notify_cancel(): return"
SkipsExecution(ret) == ret = "False"

\* A mutant of Catches: "except Exception".
CatchesExceptionOnly(exc) == exc \notin {"KeyboardInterrupt", "CancelledError"}

\* "except BaseException as exc" of _run_sync and _run_async.
Catches(exc) == TRUE

\* A mutant of Captured: the exception is replaced by a new one.
CapturedWrapped(exc) == "RuntimeError"

\* What set_exception is given: "self.future.set_exception(exc)".
Captured(exc) == exc

\* A mutant of Delivered: the future is resolved with True, as the
\* worker's readiness future is.
DeliveredTrue(res) == "True"

\* What set_result is given: "self.future.set_result(result)".
Delivered(res) == res

Wake(hop) == [kind |-> "wake", arg |-> hop]
RunItem(c) == [kind |-> "run", arg |-> c]
StepItem(c) == [kind |-> "step", arg |-> c]

\* Event.set() on the shutdown events of the workers in S, given the ready
\* queues rdy: the flag is set, and the waiter (the worker's
\* run-until-shutdown coroutine) is notified through its own loop.
EventSet(S, rdy) ==
    /\ shutdown_event' = [w \in Workers |->
            IF w \in S /\ shutdown_event[w] # None THEN "set" ELSE shutdown_event[w]]
    /\ ready' = [w \in Workers |->
            IF w \in S /\ shutdown_event[w] = "clear" /\ wstate[w] = "running"
            THEN Append(rdy[w], Wake(1)) ELSE rdy[w]]

\* future.set_result(res) / future.set_exception(exc) with the done
\* callbacks they invoke; InvalidStateError on a future that is done.
FutureSet(c, res, exc, rdy) ==
    IF fstate[c] \in DoneStates
    THEN /\ runRaised' = [runRaised EXCEPT ![c] = "InvalidStateError"]
         /\ ready' = rdy
         /\ UNCHANGED <<fstate, fresult, fexc, shutdown_event>>
    ELSE /\ fstate' = [fstate EXCEPT ![c] = "FINISHED"]
         /\ fresult' = [fresult EXCEPT ![c] = res]
         /\ fexc' = [fexc EXCEPT ![c] = exc]
         /\ EventSet(callbacks[c], rdy)
         /\ UNCHANGED runRaised

(***************************************************************************)
(* Initial state: the workers of W constructed (Worker.__init__, lines    *)
(* 144-154) with either run_once, new calls (Call.new, lines 36-43), idle *)
(* threads, no global worker.                                              *)
(***************************************************************************)
InitOver(W) ==
    /\ fstate = [c \in Calls |-> "PENDING"]
    /\ fresult = [c \in Calls |-> None]
    /\ fexc = [c \in Calls |-> None]
    /\ callbacks = [c \in Calls |-> {}]
    /\ task = [c \in Calls |-> None]
    /\ taskLoop = [c \in Calls |-> NoWorker]
    /\ invoked = [c \in Calls |-> 0]
    /\ raised = [c \in Calls |-> None]
    /\ runRaised = [c \in Calls |-> None]
    /\ returned = [c \in Calls |-> None]
    /\ wstate = [w \in Workers |-> IF w \in W THEN "new" ELSE "unconstructed"]
    /\ shutdown_event = [w \in Workers |-> None]
    /\ loopref = [w \in Workers |-> FALSE]
    /\ ready_future = [w \in Workers |-> "PENDING"]
    /\ run_once \in {f \in [Workers -> BOOLEAN] : \A w \in Workers \ W : ~f[w]}
    /\ daemon = [w \in Workers |-> FALSE]
    /\ submitted_count = [w \in Workers |-> 0]
    /\ ready = [w \in Workers |-> <<>>]
    /\ wcur = [w \in Workers |-> None]
    /\ scheduled = [w \in Workers |-> <<>>]
    /\ shutdowns = [w \in Workers |-> <<>>]
    /\ tpc = [t \in Threads |-> "idle"]
    /\ targW = [t \in Threads |-> NoWorker]
    /\ targC = [t \in Threads |-> None]
    /\ tmp = [t \in Threads |-> 0]
    /\ tres = [t \in Threads |-> None]
    /\ nsubmits = 0
    /\ GLOBAL_WORKER = NoWorker
    /\ gseen = [t \in Threads |-> NoWorker]
    /\ gnew = [t \in Threads |-> NoWorker]
    /\ gret = [t \in Threads |-> NoWorker]

(***************************************************************************)
(* The worker thread                                                       *)
(***************************************************************************)
LoopLive(w) == wstate[w] \in {"running", "stopping"}

\* _run_until_shutdown, lines 205-208 and 213: the loop is published, the
\* event constructed, readiness resolved; the coroutine waits on the event.
Bootstrap(w) ==
    /\ wstate[w] = "booting"
    /\ wstate' = [wstate EXCEPT ![w] = "running"]
    /\ loopref' = [loopref EXCEPT ![w] = TRUE]
    /\ shutdown_event' = [shutdown_event EXCEPT ![w] = "clear"]
    /\ ready_future' = [ready_future EXCEPT ![w] = "OK"]
    /\ UNCHANGED <<callVars, run_once, daemon, submitted_count, ready, wcur, scheduled, shutdowns, threadVars, registryVars>>

\* _run_until_shutdown, lines 209-211: constructing the event (line 207)
\* raised; readiness is resolved with the error, the coroutine returns and
\* the thread exits.
BootstrapFail(w) ==
    /\ wstate[w] = "booting"
    /\ wstate' = [wstate EXCEPT ![w] = "dead"]
    /\ ready_future' = [ready_future EXCEPT ![w] = "ERR"]
    /\ loopref' = [loopref EXCEPT ![w] = TRUE]
    /\ UNCHANGED <<callVars, shutdown_event, run_once, daemon, submitted_count, ready, wcur, scheduled, shutdowns, threadVars, registryVars>>

\* Call.run, lines 51-54, as the loop's next callback: the guard.
LoopRun(w) ==
    /\ LoopLive(w) /\ wcur[w] = None
    /\ ready[w] # <<>> /\ Head(ready[w]).kind = "run"
    /\ LET c == Head(ready[w]).arg
           g == RunGuard(fstate[c])
       IN /\ ready' = [ready EXCEPT ![w] = Tail(@)]
          /\ fstate' = [fstate EXCEPT ![c] = g.state]
          /\ IF g.ret = "raise"
             THEN /\ runRaised' = [runRaised EXCEPT ![c] = "RuntimeError"]
                  /\ UNCHANGED wcur
             ELSE /\ wcur' = [wcur EXCEPT ![w] = IF SkipsExecution(g.ret) THEN None ELSE c]
                  /\ UNCHANGED runRaised
    /\ UNCHANGED <<fresult, fexc, callbacks, task, taskLoop, invoked, raised, returned>>
    /\ UNCHANGED <<wstate, shutdown_event, loopref, ready_future, run_once, daemon, submitted_count, scheduled, shutdowns>>
    /\ UNCHANGED <<threadVars, registryVars>>

\* An exception that escapes a callback of the loop: the loop logs an
\* Exception and goes on; KeyboardInterrupt and SystemExit end the loop and,
\* through _entrypoint (lines 197-202), the thread.
AfterEscape(w, exc) ==
    IF exc = "KeyboardInterrupt" THEN "dead" ELSE wstate[w]

\* A mutant of HasRunningLoop: run() finds no running loop.
HasRunningLoopNever(w) == FALSE

\* Lines 60-61, "loop = get_running_loop(); if loop": run() is a callback of
\* the loop of worker w, which is running.
HasRunningLoop(w) == LoopLive(w)

\* Call._run_sync, lines 75-90, and the rest of Call.run, lines 58-73: fn is
\* called and returns a value, raises, or returns a coroutine, for which a
\* task running _run_async is created on the loop (without a running loop,
\* line 71 would call asyncio.run, which raises RuntimeError in a thread
\* whose loop is running).
LoopInvoke(w) ==
    /\ LoopLive(w) /\ wcur[w] # None
    /\ LET c == wcur[w] IN
       /\ invoked' = [invoked EXCEPT ![c] = @ + 1]
       /\ wcur' = [wcur EXCEPT ![w] = None]
       /\ \/ \E v \in Values :
                /\ returned' = [returned EXCEPT ![c] = v]
                /\ FutureSet(c, Delivered(v), None, ready)
                /\ UNCHANGED <<task, taskLoop, raised, wstate>>
          \/ \E e \in Exceptions :
                /\ raised' = [raised EXCEPT ![c] = e]
                /\ IF Catches(e)
                   THEN /\ FutureSet(c, None, Captured(e), ready)
                        /\ UNCHANGED wstate
                   ELSE /\ runRaised' = [runRaised EXCEPT ![c] = e]
                        /\ wstate' = [wstate EXCEPT ![w] = AfterEscape(w, e)]
                        /\ UNCHANGED <<fstate, fresult, fexc, shutdown_event, ready>>
                /\ UNCHANGED <<task, taskLoop, returned>>
          \/ /\ IF HasRunningLoop(w)
                THEN /\ task' = [task EXCEPT ![c] = "created"]
                     /\ taskLoop' = [taskLoop EXCEPT ![c] = w]
                     /\ ready' = [ready EXCEPT ![w] = Append(@, StepItem(c))]
                     /\ UNCHANGED runRaised
                ELSE /\ runRaised' = [runRaised EXCEPT ![c] = "RuntimeError"]
                     /\ UNCHANGED <<task, taskLoop, ready>>
             /\ UNCHANGED <<fstate, fresult, fexc, shutdown_event, raised, returned, wstate>>
    /\ UNCHANGED <<callbacks, loopref, ready_future, run_once, daemon, submitted_count, scheduled, shutdowns>>
    /\ UNCHANGED <<threadVars, registryVars>>

\* The ways to list the calls of S one after the other.
Orders(S) ==
    {s \in [1..Cardinality(S) -> S] : \A i, j \in 1..Cardinality(S) : s[i] = s[j] => i = j}

\* The step items of the calls listed by order, appended to q.
RECURSIVE AppendSteps(_, _, _)
AppendSteps(q, order, i) ==
    IF i > Len(order) THEN q ELSE AppendSteps(Append(q, StepItem(order[i])), order, i + 1)

\* Call._run_async, lines 92-102, one step of its task on the loop: the
\* awaited coroutine returns, raises or suspends (once); a cancelled task
\* gets CancelledError at the await, or, when its coroutine had not started,
\* ends without entering the try block.
LoopStep(w) ==
    /\ LoopLive(w) /\ wcur[w] = None
    /\ ready[w] # <<>> /\ Head(ready[w]).kind = "step"
    /\ LET c == Head(ready[w]).arg
           rdy == [ready EXCEPT ![w] = Tail(@)]
       IN CASE task[c] = "created_cancel" ->
                 /\ task' = [task EXCEPT ![c] = "cancelled"]
                 /\ ready' = rdy
                 /\ UNCHANGED <<fstate, fresult, fexc, shutdown_event, raised, runRaised, returned, wstate>>
            [] task[c] = "resumed_cancel" ->
                 /\ task' = [task EXCEPT ![c] = "done"]
                 /\ raised' = [raised EXCEPT ![c] = "CancelledError"]
                 /\ IF Catches("CancelledError")
                    THEN /\ FutureSet(c, None, Captured("CancelledError"), rdy)
                    ELSE /\ ready' = rdy
                         /\ UNCHANGED <<fstate, fresult, fexc, shutdown_event, runRaised>>
                 /\ UNCHANGED <<wstate, returned>>
            [] OTHER ->
                 \/ \E v \in Values :
                       /\ task' = [task EXCEPT ![c] = "done"]
                       /\ returned' = [returned EXCEPT ![c] = v]
                       /\ FutureSet(c, Delivered(v), None, rdy)
                       /\ UNCHANGED <<raised, wstate>>
                 \/ \E e \in Exceptions :
                       /\ task' = [task EXCEPT ![c] = "done"]
                       /\ raised' = [raised EXCEPT ![c] = e]
                       /\ UNCHANGED returned
                       /\ IF Catches(e)
                          THEN /\ FutureSet(c, None, Captured(e), rdy)
                               /\ UNCHANGED wstate
                          ELSE /\ runRaised' = [runRaised EXCEPT ![c] = e]
                               /\ wstate' = [wstate EXCEPT ![w] = AfterEscape(w, e)]
                               /\ ready' = rdy
                               /\ UNCHANGED <<fstate, fresult, fexc, shutdown_event>>
                 \/ /\ task[c] = "created"
                    /\ task' = [task EXCEPT ![c] = "suspended"]
                    /\ ready' = rdy
                    /\ UNCHANGED <<fstate, fresult, fexc, shutdown_event, raised, runRaised, returned, wstate>>
    /\ UNCHANGED <<callbacks, taskLoop, invoked>>
    /\ UNCHANGED <<loopref, ready_future, run_once, daemon, submitted_count, wcur, scheduled, shutdowns>>
    /\ UNCHANGED <<threadVars, registryVars>>

\* What a suspended coroutine waits for has happened: the loop makes its
\* task ready again.
TaskResume(w, c) ==
    /\ LoopLive(w) /\ taskLoop[c] = w /\ task[c] = "suspended"
    /\ task' = [task EXCEPT ![c] = "resumed"]
    /\ ready' = [ready EXCEPT ![w] = Append(@, StepItem(c))]
    /\ UNCHANGED <<fstate, fresult, fexc, callbacks, taskLoop, invoked, raised, runRaised, returned>>
    /\ UNCHANGED <<wstate, shutdown_event, loopref, ready_future, run_once, daemon, submitted_count, wcur, scheduled, shutdowns>>
    /\ UNCHANGED <<threadVars, registryVars>>

\* task.cancel() of asyncio.run's cleanup, on the task of call c.
CancelledTask(st) ==
    CASE st = "created" -> "created_cancel"
      [] st \in {"suspended", "resumed"} -> "resumed_cancel"
      [] OTHER -> st

\* A mutant of LoopWake: the notification is consumed and the
\* run-until-shutdown coroutine goes back to waiting.
LoopWakeIgnored(w) ==
    /\ wstate[w] = "running" /\ wcur[w] = None
    /\ ready[w] # <<>> /\ Head(ready[w]).kind = "wake"
    /\ ready' = [ready EXCEPT ![w] = Tail(@)]
    /\ UNCHANGED <<callVars, wstate, shutdown_event, loopref, ready_future, run_once, daemon, submitted_count, wcur, scheduled, shutdowns, threadVars, registryVars>>

\* The shutdown event's notification on its way through the loop: the
\* waiter's future is resolved (hop 1), the run-until-shutdown coroutine,
\* line 213, resumes and returns (hop 2), and asyncio.run, line 198, stops
\* the loop and cancels the tasks that are left (hop 3).
LoopWake(w) ==
    /\ wstate[w] = "running" /\ wcur[w] = None
    /\ ready[w] # <<>> /\ Head(ready[w]).kind = "wake"
    /\ LET hop == Head(ready[w]).arg
           left == {c \in Calls : taskLoop[c] = w /\ task[c] = "suspended"}
       IN IF hop < 3
          THEN /\ ready' = [ready EXCEPT ![w] = Append(Tail(@), Wake(hop + 1))]
               /\ UNCHANGED <<wstate, task>>
          ELSE /\ wstate' = [wstate EXCEPT ![w] = "stopping"]
               /\ task' = [c \in Calls |-> IF taskLoop[c] = w THEN CancelledTask(task[c]) ELSE task[c]]
               /\ \E order \in Orders(left) :
                     ready' = [ready EXCEPT ![w] = AppendSteps(Tail(@), order, 1)]
    /\ UNCHANGED <<fstate, fresult, fexc, callbacks, taskLoop, invoked, raised, runRaised, returned>>
    /\ UNCHANGED <<shutdown_event, loopref, ready_future, run_once, daemon, submitted_count, wcur, scheduled, shutdowns>>
    /\ UNCHANGED <<threadVars, registryVars>>

\* asyncio.run's cleanup has run the loop for the last time; what is
\* scheduled from now on is never run.
LoopFinish(w) ==
    /\ wstate[w] = "stopping" /\ wcur[w] = None /\ ready[w] = <<>>
    /\ wstate' = [wstate EXCEPT ![w] = "closing"]
    /\ UNCHANGED <<callVars, shutdown_event, loopref, ready_future, run_once, daemon, submitted_count, ready, wcur, scheduled, shutdowns, threadVars, registryVars>>

\* asyncio.run closes the loop, _entrypoint returns, the thread ends.
LoopClose(w) ==
    /\ wstate[w] = "closing"
    /\ wstate' = [wstate EXCEPT ![w] = "dead"]
    /\ ready' = [ready EXCEPT ![w] = <<>>]
    /\ UNCHANGED <<callVars, shutdown_event, loopref, ready_future, run_once, daemon, submitted_count, wcur, scheduled, shutdowns, threadVars, registryVars>>

WorkerThread(w) ==
    \/ Bootstrap(w) \/ BootstrapFail(w)
    \/ LoopRun(w) \/ LoopInvoke(w) \/ LoopStep(w) \/ LoopWake(w)
    \/ LoopFinish(w) \/ LoopClose(w)
    \/ \E c \in Calls : TaskResume(w, c)

(***************************************************************************)
(* Client threads: Worker.submit line by line, Worker.shutdown, and the   *)
(* holder's future.cancel()                                                *)
(***************************************************************************)
\* The operation of thread t ends with outcome r.
Finish(t, r) ==
    /\ tpc' = [tpc EXCEPT ![t] = "idle"]
    /\ tres' = [tres EXCEPT ![t] = r]
    /\ targW' = [targW EXCEPT ![t] = NoWorker]
    /\ targC' = [targC EXCEPT ![t] = None]
    /\ tmp' = [tmp EXCEPT ![t] = 0]

Goto(t, label) ==
    /\ tpc' = [tpc EXCEPT ![t] = label]
    /\ UNCHANGED <<targW, targC, tmp, tres>>

\* A mutant of RunOnceExhausted: the check is left out.
RunOnceNeverExhausted(w) == FALSE

\* Line 168: "if self._submitted_count > 0 and self._run_once".
RunOnceExhausted(w) == submitted_count[w] > 0 /\ run_once[w]

\* submit(call), lines 168-171: the run-once check.
Submit168(t, w, c) ==
    /\ tpc[t] = "idle" /\ nsubmits < MaxSubmits
    /\ wstate[w] # "unconstructed"
    /\ nsubmits' = nsubmits + 1
    /\ IF RunOnceExhausted(w)
       THEN Finish(t, "RunOnceError")
       ELSE /\ tpc' = [tpc EXCEPT ![t] = "s173"]
            /\ targW' = [targW EXCEPT ![t] = w]
            /\ targC' = [targC EXCEPT ![t] = c]
            /\ tres' = [tres EXCEPT ![t] = None]
            /\ UNCHANGED tmp
    /\ UNCHANGED <<callVars, workerVars, registryVars>>

\* Lines 173-174 and start(), line 163: a worker without a shutdown event is
\* started; Thread.start() raises RuntimeError on a thread started before.
Submit173(t) ==
    /\ tpc[t] = "s173"
    /\ LET w == targW[t] IN
       IF shutdown_event[w] # None
       THEN Goto(t, "s176") /\ UNCHANGED <<wstate, nsubmits>>
       ELSE IF wstate[w] = "new"
            THEN /\ wstate' = [wstate EXCEPT ![w] = "booting"]
                 /\ Goto(t, "s165") /\ UNCHANGED nsubmits
            ELSE Finish(t, "ThreadStartError") /\ UNCHANGED <<wstate, nsubmits>>
    /\ UNCHANGED <<callVars, shutdown_event, loopref, ready_future, run_once, daemon, submitted_count, ready, wcur, scheduled, shutdowns, registryVars>>

\* A mutant of Submit165: start() does not wait for the readiness future.
Submit165NoWait(t) ==
    /\ tpc[t] = "s165"
    /\ Goto(t, "s176")
    /\ UNCHANGED <<callVars, workerVars, nsubmits, registryVars>>

\* start(), line 165: wait for readiness; a bootstrap error is re-raised.
Submit165(t) ==
    /\ tpc[t] = "s165"
    /\ ready_future[targW[t]] # "PENDING"
    /\ IF ready_future[targW[t]] = "OK"
       THEN Goto(t, "s176")
       ELSE Finish(t, "StartupFailure")
    /\ UNCHANGED <<callVars, workerVars, nsubmits, registryVars>>

\* A mutant of ShutdownIsSet: the check is left out.
ShutdownNeverSet(w) == FALSE

\* Line 176: "if self._shutdown_event.is_set()".
ShutdownIsSet(w) == shutdown_event[w] = "set"

\* Lines 176-177: the shutdown check.
Submit176(t) ==
    /\ tpc[t] = "s176"
    /\ IF ShutdownIsSet(targW[t])
       THEN Finish(t, "WorkerShutdown")
       ELSE Goto(t, "s179")
    /\ UNCHANGED <<callVars, workerVars, nsubmits, registryVars>>

\* A mutant of CallSoon: the callback is put in front of the queue.
CallSoonFront(q, item) == <<item>> \o q

\* loop.call_soon_threadsafe(callback) of line 179, on the loop's ready
\* queue q: the callback is put at the end.
CallSoon(q, item) == Append(q, item)

\* Line 179: call.run is scheduled onto the loop; call_soon_threadsafe
\* raises RuntimeError on a closed loop.
Submit179(t) ==
    /\ tpc[t] = "s179"
    /\ LET w == targW[t] IN
       IF wstate[w] = "dead"
       THEN Finish(t, "LoopClosed") /\ UNCHANGED <<ready, scheduled>>
       ELSE /\ ready' = [ready EXCEPT ![w] = CallSoon(@, RunItem(targC[t]))]
            /\ scheduled' = [scheduled EXCEPT ![w] = Append(@, targC[t])]
            /\ Goto(t, "s180")
    /\ UNCHANGED <<callVars, wstate, shutdown_event, loopref, ready_future, run_once, daemon, submitted_count, wcur, shutdowns, nsubmits, registryVars>>

\* Line 180, "self._submitted_count += 1": the read.
Submit180Read(t) ==
    /\ tpc[t] = "s180"
    /\ tpc' = [tpc EXCEPT ![t] = "s180w"]
    /\ tmp' = [tmp EXCEPT ![t] = submitted_count[targW[t]]]
    /\ UNCHANGED <<targW, targC, tres>>
    /\ UNCHANGED <<callVars, workerVars, nsubmits, registryVars>>

\* A mutant of AttachesShutdown: no completion callback is attached.
AttachesShutdownNever(w) == FALSE

\* Line 181: "if self._run_once".
AttachesShutdown(w) == run_once[w]

\* Line 180: the write; line 181: the run-once branch.
Submit180Write(t) ==
    /\ tpc[t] = "s180w"
    /\ submitted_count' = [submitted_count EXCEPT ![targW[t]] = tmp[t] + 1]
    /\ IF AttachesShutdown(targW[t])
       THEN Goto(t, "s182")
       ELSE Finish(t, "ok")
    /\ UNCHANGED <<callVars, wstate, shutdown_event, loopref, ready_future, run_once, daemon, ready, wcur, scheduled, shutdowns, nsubmits, registryVars>>

\* Line 182: call.future.add_done_callback(lambda _: self.shutdown()); on a
\* future that is done the callback is called at once.
Submit182(t) ==
    /\ tpc[t] = "s182"
    /\ LET w == targW[t]
           c == targC[t]
       IN IF fstate[c] \in DoneStates
          THEN EventSet({w}, ready) /\ UNCHANGED callbacks
          ELSE /\ callbacks' = [callbacks EXCEPT ![c] = @ \cup {w}]
               /\ UNCHANGED <<shutdown_event, ready>>
    /\ Finish(t, "ok")
    /\ UNCHANGED <<fstate, fresult, fexc, task, taskLoop, invoked, raised, runRaised, returned>>
    /\ UNCHANGED <<wstate, loopref, ready_future, run_once, daemon, submitted_count, wcur, scheduled, shutdowns, nsubmits, registryVars>>

\* What a waiter reads from the future of call c: future.result() returns
\* the result, re-raises the exception or raises the cancellation; it
\* blocks while the future is not done.
Result(c) ==
    CASE fstate[c] = "FINISHED" /\ fexc[c] # None -> [kind |-> "raise", val |-> fexc[c]]
      [] fstate[c] = "FINISHED" /\ fexc[c] = None -> [kind |-> "return", val |-> fresult[c]]
      [] fstate[c] \in CancelledStates -> [kind |-> "raise", val |-> "futures.CancelledError"]
      [] OTHER -> [kind |-> "blocks", val |-> None]

\* A mutant of ShutdownReturnsEarly: the check is left out.
ShutdownReturnsEarlyNever(w) == FALSE

\* Line 185: "if not self._shutdown_event".
ShutdownReturnsEarly(w) == shutdown_event[w] = None

\* How a shutdown() ends: by the early return, by setting the event, or
\* with the AttributeError of None.set().
ShutdownOutcome(w) ==
    IF ShutdownReturnsEarly(w) THEN "return"
    ELSE IF shutdown_event[w] = None THEN "AttributeError" ELSE "set"

\* Worker.shutdown, lines 184-188, without the history.
ShutdownBody(w) ==
    /\ wstate[w] # "unconstructed"
    /\ IF ShutdownOutcome(w) = "set"
       THEN EventSet({w}, ready)
       ELSE UNCHANGED <<shutdown_event, ready>>
    /\ UNCHANGED <<callVars, wstate, loopref, ready_future, run_once, daemon, submitted_count, wcur, scheduled, threadVars, registryVars>>

\* Worker.shutdown, lines 184-188, called by any thread.
Shutdown(w) == ShutdownBody(w) /\ UNCHANGED shutdowns

\* Bound of the model: how many shutdown() calls on a worker are kept track
\* of.
MaxShutdowns == 3

\* Worker.shutdown, lines 184-188, called by any thread and kept track of.
ShutdownLogged(w) ==
    /\ Len(shutdowns[w]) < MaxShutdowns
    /\ ShutdownBody(w)
    /\ shutdowns' = [shutdowns EXCEPT ![w] =
            Append(@, [found |-> shutdown_event[w], outcome |-> ShutdownOutcome(w)])]

\* The holder of call c calls future.cancel(): a pending future becomes
\* CANCELLED and its done callbacks are invoked; a running or finished
\* future is left as it is.
Cancel(c) ==
    /\ IF fstate[c] = "PENDING"
       THEN /\ fstate' = [fstate EXCEPT ![c] = "CANCELLED"]
            /\ EventSet(callbacks[c], ready)
       ELSE UNCHANGED <<fstate, shutdown_event, ready>>
    /\ UNCHANGED <<fresult, fexc, callbacks, task, taskLoop, invoked, raised, runRaised, returned>>
    /\ UNCHANGED <<wstate, loopref, ready_future, run_once, daemon, submitted_count, wcur, scheduled, shutdowns, threadVars, registryVars>>

SubmitRest(t) ==
    \/ Submit173(t) \/ Submit165(t) \/ Submit176(t) \/ Submit179(t)
    \/ Submit180Read(t) \/ Submit180Write(t) \/ Submit182(t)

(***************************************************************************)
(* get_global_worker, line by line                                         *)
(***************************************************************************)
\* thread.is_alive(): started and not yet ended.
Alive(w) == wstate[w] \in {"booting", "running", "stopping", "closing"}

\* A mutant of NeedsNewWorker: the liveness of the cached worker is not
\* looked at.
NeedsNewWorkerNoneOnly(g) == g = NoWorker

\* Line 223: "if GLOBAL_WORKER is None or not GLOBAL_WORKER.thread.is_alive()".
NeedsNewWorker(g) == g = NoWorker \/ ~Alive(g)

\* Line 223: the check.
Get223(t) ==
    /\ tpc[t] = "idle"
    /\ IF NeedsNewWorker(GLOBAL_WORKER)
       THEN /\ tpc' = [tpc EXCEPT ![t] = "g224"]
            /\ gseen' = [gseen EXCEPT ![t] = NoWorker]
       ELSE /\ tpc' = [tpc EXCEPT ![t] = "g227"]
            /\ gseen' = [gseen EXCEPT ![t] = GLOBAL_WORKER]
    /\ tres' = [tres EXCEPT ![t] = None]
    /\ UNCHANGED <<callVars, workerVars, targW, targC, tmp, nsubmits, GLOBAL_WORKER, gnew, gret>>

\* Line 224: a daemon worker is constructed and assigned to the global.
Get224(t) ==
    /\ tpc[t] = "g224"
    /\ \E w \in Workers :
          /\ wstate[w] = "unconstructed"
          /\ \A x \in Workers : wstate[x] = "unconstructed" => w <= x
          /\ wstate' = [wstate EXCEPT ![w] = "new"]
          /\ daemon' = [daemon EXCEPT ![w] = TRUE]
          /\ GLOBAL_WORKER' = w
          /\ gnew' = [gnew EXCEPT ![t] = w]
    /\ Goto(t, "g225")
    /\ UNCHANGED <<callVars, shutdown_event, loopref, ready_future, run_once, submitted_count, ready, wcur, scheduled, shutdowns, nsubmits, gseen, gret>>

\* Line 225, "GLOBAL_WORKER.start()", to line 163: the global is read again
\* and that worker's thread started.
Get225(t) ==
    /\ tpc[t] = "g225"
    /\ IF wstate[GLOBAL_WORKER] = "new"
       THEN /\ wstate' = [wstate EXCEPT ![GLOBAL_WORKER] = "booting"]
            /\ tpc' = [tpc EXCEPT ![t] = "g165"]
            /\ targW' = [targW EXCEPT ![t] = GLOBAL_WORKER]
            /\ UNCHANGED <<targC, tmp, tres, gseen, gnew>>
       ELSE /\ Finish(t, "ThreadStartError")
            /\ gseen' = [gseen EXCEPT ![t] = NoWorker]
            /\ gnew' = [gnew EXCEPT ![t] = NoWorker]
            /\ UNCHANGED wstate
    /\ UNCHANGED <<callVars, shutdown_event, loopref, ready_future, run_once, daemon, submitted_count, ready, wcur, scheduled, shutdowns, nsubmits, GLOBAL_WORKER, gret>>

\* start(), line 165, within get_global_worker.
Get165(t) ==
    /\ tpc[t] = "g165"
    /\ ready_future[targW[t]] # "PENDING"
    /\ IF ready_future[targW[t]] = "OK"
       THEN /\ tpc' = [tpc EXCEPT ![t] = "g227"]
            /\ targW' = [targW EXCEPT ![t] = NoWorker]
            /\ UNCHANGED <<targC, tmp, tres, gseen, gnew>>
       ELSE /\ Finish(t, "StartupFailure")
            /\ gseen' = [gseen EXCEPT ![t] = NoWorker]
            /\ gnew' = [gnew EXCEPT ![t] = NoWorker]
    /\ UNCHANGED <<callVars, workerVars, nsubmits, GLOBAL_WORKER, gret>>

\* Line 227: "return GLOBAL_WORKER".
Get227(t) ==
    /\ tpc[t] = "g227"
    /\ gret' = [gret EXCEPT ![t] = GLOBAL_WORKER]
    /\ gseen' = [gseen EXCEPT ![t] = NoWorker]
    /\ gnew' = [gnew EXCEPT ![t] = NoWorker]
    /\ Finish(t, "ok")
    /\ UNCHANGED <<callVars, workerVars, nsubmits, GLOBAL_WORKER>>

GetStep(t) ==
    Get223(t) \/ Get224(t) \/ Get225(t) \/ Get165(t) \/ Get227(t)

\* The part of a worker's thread that runs when no call is submitted.
IdleWorkerThread(w) ==
    \/ Bootstrap(w) \/ BootstrapFail(w)
    \/ LoopWake(w) \/ LoopFinish(w) \/ LoopClose(w)

\* The steps of the client threads T, of the threads of the workers W, and
\* of the holders of the calls C.
NextOver(T, W, C) ==
    \/ \E w \in W : WorkerThread(w)
    \/ \E t \in T : \E w \in W, c \in C : Submit168(t, w, c)
    \/ \E t \in T : SubmitRest(t)
    \/ \E w \in W : Shutdown(w)
    \/ \E c \in C : Cancel(c)

\* One submitting thread, one worker, two calls.
Init == InitOver({1})

Next == NextOver({"t1"}, {1}, Calls)

Spec == Init /\ [][Next]_vars

\* One submitting thread, two workers, one call: the loops of the two
\* workers race on the call's run().
InitRace == InitOver({1, 2})

NextRace == NextOver({"t1"}, {1, 2}, {"c1"})

SpecRace == InitRace /\ [][NextRace]_vars

\* Two submitting threads, one worker, two calls.
NextSubmit == NextOver(Threads, {1}, Calls)

SpecSubmit == Init /\ [][NextSubmit]_vars

\* A run-once worker whose thread, and the submitting thread, keep running:
\* every step of the loop and of submit that can be taken is taken in the
\* end, and what a suspended coroutine waits for happens.
InitRunOnce == InitOver({1}) /\ run_once[1]

Fairness ==
    /\ WF_vars(Bootstrap(1) \/ BootstrapFail(1))
    /\ WF_vars(LoopRun(1)) /\ WF_vars(LoopInvoke(1)) /\ WF_vars(LoopStep(1))
    /\ WF_vars(LoopWake(1)) /\ WF_vars(LoopFinish(1)) /\ WF_vars(LoopClose(1))
    /\ WF_vars(\E c \in Calls : TaskResume(1, c))
    /\ WF_vars(SubmitRest("t1"))

SpecRunOnceFair == InitRunOnce /\ [][Next]_vars /\ Fairness

\* The same threads, which keep running, with a worker of either kind.
SpecFair == Init /\ [][Next]_vars /\ Fairness

\* One submitting thread, one worker, one call, and shutdown() calls that
\* are kept track of.
NextShutdown ==
    \/ WorkerThread(1)
    \/ Submit168("t1", 1, "c1")
    \/ SubmitRest("t1")
    \/ ShutdownLogged(1)
    \/ Cancel("c1")

SpecShutdown == Init /\ [][NextShutdown]_vars

\* The global worker: the threads T call get_global_worker; the workers it
\* made run, and anyone may shut them down.
InitRegistry == InitOver({})

NextRegistryOver(T) ==
    \/ \E t \in T : GetStep(t)
    \/ \E w \in Workers : IdleWorkerThread(w)
    \/ \E w \in Workers : Shutdown(w)

NextRegistry == NextRegistryOver(Threads)

SpecRegistry == InitRegistry /\ [][NextRegistry]_vars

\* One thread calls get_global_worker again and again.
NextRegistrySeq == NextRegistryOver({"t1"})

SpecRegistrySeq == InitRegistry /\ [][NextRegistrySeq]_vars

(***************************************************************************)
(* The claims                                                              *)
(***************************************************************************)
Terminal(c) == fstate[c] \in DoneStates

\* A done future never changes again (CANCELLED may become
\* CANCELLED_AND_NOTIFIED), and a future that left PENDING never returns.
ChannelSetOnce(c) ==
    /\ fstate[c] # "PENDING" => fstate'[c] # "PENDING"
    /\ fstate[c] = "FINISHED" => fstate'[c] = "FINISHED"
    /\ fstate[c] \in CancelledStates => fstate'[c] \in CancelledStates
    /\ Terminal(c) => fresult'[c] = fresult[c] /\ fexc'[c] = fexc[c]

\* A finished future holds a result or an exception, never both; any other
\* future holds neither.
ChannelWellFormed(c) ==
    /\ fstate[c] = "FINISHED" => (fresult[c] = None) # (fexc[c] = None)
    /\ fstate[c] # "FINISHED" => fresult[c] = None /\ fexc[c] = None

\* C1: Under every interleaving of run() on two loops, the holder's cancel
\* and shutdown, a call's future leaves PENDING at most once, a terminal
\* future is exactly one of Cancelled, Fulfilled(value), Failed(error) and
\* never changes, and no step calls set_result or set_exception on a future
\* that is already terminal.
C1_ResultChannelSetAtMostOnce ==
    /\ [](\A c \in Calls : ChannelWellFormed(c) /\ runRaised[c] # "InvalidStateError")
    /\ [][\A c \in Calls : ChannelSetOnce(c)]_vars

\* C1 witness: the call was scheduled on both workers, its coroutine was
\* cancelled by a shutdown and the future is Failed with that cancellation,
\* while the other loop's run() has been refused.
C1_Witness ==
    /\ fstate["c1"] = "FINISHED" /\ fexc["c1"] = "CancelledError"
    /\ runRaised["c1"] = "RuntimeError"
    /\ Len(scheduled[1]) > 0 /\ Len(scheduled[2]) > 0

\* C2: The wrapped function of a call is invoked at most once, however often
\* the call is submitted and although the loops of two workers race on its
\* run().
C2_InvokedAtMostOnce == \A c \in Calls : invoked[c] <= 1

\* C2 witness: the call was scheduled three times, on both workers, every
\* run() has been executed, and the function was invoked once.
C2_Witness ==
    /\ invoked["c1"] = 1
    /\ Len(scheduled[1]) + Len(scheduled[2]) = MaxSubmits
    /\ Len(scheduled[1]) > 0 /\ Len(scheduled[2]) > 0
    /\ ready[1] = <<>> /\ ready[2] = <<>> /\ wcur[1] = None /\ wcur[2] = None
    /\ wstate[1] = "running" /\ wstate[2] = "running"

C4_RunOnceSchedulesOnce ==
    \A w \in Workers : run_once[w] => Len(scheduled[w]) <= 1

\* C5: On a run-once worker, once a call that submit scheduled is terminal,
\* the shutdown event gets set and the worker's thread ends.
C5_RunOnceTerminates ==
    \A c \in Calls :
        (\E i \in 1..Len(scheduled[1]) : scheduled[1][i] = c) /\ Terminal(c)
            ~> (shutdown_event[1] = "set" /\ wstate[1] = "dead")

\* C5 witness: the call finished before submit attached the completion
\* callback; the thread of the run-once worker has ended.
C5_Witness ==
    /\ run_once[1] /\ scheduled[1] = <<"c1">> /\ fstate["c1"] = "FINISHED"
    /\ callbacks["c1"] = {} /\ tpc["t1"] = "idle"
    /\ shutdown_event[1] = "set" /\ wstate[1] = "dead"

\* C6: At most one global worker thread is alive at a time, and the callers
\* of get_global_worker that hold live workers hold the same one.
C6_OneLiveGlobalWorker ==
    /\ Cardinality({w \in Workers : daemon[w] /\ Alive(w)}) <= 1
    /\ \A t, u \in Threads :
          gret[t] # NoWorker /\ gret[u] # NoWorker /\ Alive(gret[t]) /\ Alive(gret[u])
              => gret[t] = gret[u]

\* C7: With one caller, get_global_worker returns the cached worker while
\* its thread is alive, the same worker as the call before; when there is
\* no cached worker or its thread is not alive, it constructs a new daemon
\* worker, starts it, caches it and returns it.
C7_SequentialGet ==
    [][\A t \in Threads :
        /\ tpc[t] = "idle" /\ tpc'[t] # "idle" =>
              IF GLOBAL_WORKER # NoWorker /\ Alive(GLOBAL_WORKER)
              THEN tpc'[t] = "g227" /\ gseen'[t] = GLOBAL_WORKER
              ELSE tpc'[t] = "g224"
        /\ tpc[t] = "g227" /\ tpc'[t] = "idle" =>
              /\ gret'[t] = GLOBAL_WORKER
              /\ gret[t] # NoWorker /\ Alive(gret[t]) => gret'[t] = gret[t]
              /\ IF gseen[t] # NoWorker
                 THEN gret'[t] = gseen[t]
                 ELSE /\ gret'[t] = gnew[t] /\ gnew[t] # NoWorker /\ gnew[t] # gret[t]
                      /\ daemon[gnew[t]] /\ ready_future[gnew[t]] = "OK"
                      /\ wstate[gnew[t]] \notin {"unconstructed", "new", "booting"}]_vars

\* C7 witness: the first global worker's thread has ended and the caller
\* holds a second one, alive.
C7_Witness ==
    /\ wstate[1] = "dead" /\ gret["t1"] = 2 /\ GLOBAL_WORKER = 2
    /\ wstate[2] = "running" /\ tpc["t1"] = "idle"

\* C8: No submit schedules a call onto the loop of a worker whose shutdown
\* event is set.
C8_NoScheduleAfterShutdown ==
    [][\A w \in Workers :
        Len(scheduled'[w]) > Len(scheduled[w]) => shutdown_event[w] # "set"]_vars

\* C9: What the wrapped function or its coroutine raises, of whatever class,
\* never escapes from run() to the loop: the step that makes a call Failed
\* leaves the worker's thread as it is, its loop running, and leaves the
\* shutdown events as they are (but for the completion callback of a
\* run-once worker, which shuts it down after any outcome).
C9_FailureStaysOnFuture ==
    /\ [](\A c \in Calls : runRaised[c] \notin Exceptions \cup {"CancelledError"})
    /\ [][\A c \in Calls :
            fexc[c] = None /\ fexc'[c] # None =>
                /\ wstate' = wstate
                /\ \A w \in Workers : wcur[w] = c \/ taskLoop[c] = w => LoopLive(w)
                /\ callbacks[c] = {} => shutdown_event' = shutdown_event]_vars

\* C9 witness: the first call failed with an exception that is no Exception
\* (KeyboardInterrupt), the worker is still ready, and the call submitted
\* after it was executed.
C9_Witness ==
    /\ fexc["c1"] = "KeyboardInterrupt" /\ scheduled[1] = <<"c1", "c2">>
    /\ fstate["c2"] = "FINISHED" /\ fresult["c2"] = "v1" /\ invoked["c2"] = 1
    /\ wstate[1] = "running" /\ shutdown_event[1] = "clear"

\* C10: When the wrapped function or its coroutine raises, the future is
\* Failed with exactly what was raised, every read of the future re-raises
\* it, and it never changes.
C10_ExactExceptionKept ==
    /\ [](\A c \in Calls :
            raised[c] # None =>
                /\ fstate[c] = "FINISHED" /\ fexc[c] = raised[c]
                /\ Result(c) = [kind |-> "raise", val |-> raised[c]])
    /\ [][\A c \in Calls : fexc[c] # None => fexc'[c] = fexc[c]]_vars

\* C10 witness: an asynchronous call whose coroutine raised ValueError after
\* a suspension; a waiter reads that ValueError.
C10_Witness ==
    /\ task["c1"] = "done" /\ raised["c1"] = "ValueError"
    /\ Result("c1") = [kind |-> "raise", val |-> "ValueError"]

\* C11: When the wrapped function (or its coroutine) returns a value, the
\* future is Fulfilled with exactly that value in the same step, a waiter
\* reads that value, and the value set on a future is set on a running
\* future and never changes afterwards.
C11_ReturnValueDelivered ==
    /\ [](\A c \in Calls :
            returned[c] # None =>
                /\ fstate[c] = "FINISHED" /\ fresult[c] = returned[c] /\ fexc[c] = None
                /\ Result(c) = [kind |-> "return", val |-> returned[c]])
    /\ [][\A c \in Calls :
            /\ fresult[c] # None => fresult'[c] = fresult[c] /\ fstate'[c] = "FINISHED"
            /\ fresult[c] = None /\ fresult'[c] # None =>
                  fstate[c] = "RUNNING" /\ returned[c] = None /\ returned'[c] = fresult'[c]]_vars

\* C11 witness: a synchronous call returned v1 and an asynchronous call,
\* after a suspension, returned v2; a waiter reads each value.
C11_Witness ==
    /\ task["c1"] = None /\ returned["c1"] = "v1"
    /\ task["c2"] = "done" /\ returned["c2"] = "v2"
    /\ Result("c1") = [kind |-> "return", val |-> "v1"]
    /\ Result("c2") = [kind |-> "return", val |-> "v2"]

C13_ShutdownTerminates ==
    /\ [][\A w \in Workers : shutdown_event[w] = "set" => shutdown_event'[w] = "set"]_vars
    /\ [](ENABLED Shutdown(1))
    /\ (shutdown_event[1] = "set") ~> (wstate[1] \in {"stopping", "closing", "dead"})
    /\ (shutdown_event[1] = "set") ~> (wstate[1] = "dead")

\* C13 witness: shutdown() was called on a worker that is not run-once
\* while an asynchronous call was suspended on its loop; the call failed
\* with the cancellation and the thread has ended.
C13_Witness ==
    /\ ~run_once[1] /\ shutdown_event[1] = "set" /\ wstate[1] = "dead"
    /\ scheduled[1] = <<"c1">> /\ task["c1"] = "done" /\ fexc["c1"] = "CancelledError"

\* C14: A shutdown() that finds no shutdown event (the worker was never
\* started) or finds it set (shutdown() was called before) changes nothing
\* and raises nothing; one that finds it clear sets it and changes no other
\* field of the worker; a worker that was not started has no event, whatever
\* was called on it, and the next submit starts it.
C14_ShutdownIdempotent ==
    /\ [](\A w \in Workers :
            /\ \A i \in 1..Len(shutdowns[w]) : shutdowns[w][i].outcome # "AttributeError"
            /\ wstate[w] = "new" => shutdown_event[w] = None /\ ready[w] = <<>>)
    /\ [][\A w \in Workers :
            shutdowns'[w] # shutdowns[w] =>
                /\ UNCHANGED <<callVars, wstate, loopref, ready_future, run_once, daemon, submitted_count, wcur, scheduled, threadVars, registryVars>>
                /\ IF shutdown_event[w] = "clear"
                   THEN shutdown_event'[w] = "set" /\ ready'[w] = Append(ready[w], Wake(1))
                   ELSE UNCHANGED <<shutdown_event, ready>>]_vars
    /\ [][\A t \in Threads :
            tpc[t] = "s173" /\ wstate[targW[t]] = "new" /\ tpc'[t] # "s173"
                => wstate'[targW[t]] = "booting" /\ tpc'[t] = "s165"]_vars

\* C14 witness: shutdown() was called on the worker before it was started,
\* a submit then started it and scheduled its call, and shutdown() was then
\* called twice: the second call found the event set; the call was executed.
C14_Witness ==
    /\ Len(shutdowns[1]) = 3
    /\ shutdowns[1][1] = [found |-> None, outcome |-> "return"]
    /\ shutdowns[1][2] = [found |-> "clear", outcome |-> "set"]
    /\ shutdowns[1][3] = [found |-> "set", outcome |-> "set"]
    /\ scheduled[1] = <<"c1">> /\ fstate["c1"] = "FINISHED" /\ shutdown_event[1] = "set"

\* The run() callbacks waiting in the ready queue of worker w, in order.
RunItems(w) == SelectSeq(ready[w], LAMBDA it : it.kind = "run")

\* How many of the calls scheduled on worker w have had their run() begun
\* (while the loop of w is not closed).
Begun(w) == Len(scheduled[w]) - Len(RunItems(w))

\* Where call c was first scheduled on worker w.
FirstScheduled(w, c) ==
    CHOOSE i \in 1..Len(scheduled[w]) :
        scheduled[w][i] = c /\ \A j \in 1..(i - 1) : scheduled[w][j] # c

\* C15: The run() callbacks waiting on a worker's loop are the calls
\* scheduled last, in the order of their scheduling, and the run() that
\* begins is that of the call scheduled earliest among them; when the
\* function of a call is invoked, every other call scheduled on the worker
\* before it is terminal, unless it is asynchronous (it has a task).
C15_RunsInSubmissionOrder ==
    /\ [](\A w \in Workers :
            wstate[w] # "dead" =>
                /\ Begun(w) >= 0
                /\ \A i \in 1..Len(RunItems(w)) :
                      RunItems(w)[i].arg = scheduled[w][Begun(w) + i])
    /\ [][\A w \in Workers :
            wstate'[w] # "dead" /\ Len(RunItems(w)') < Len(RunItems(w)) =>
                /\ Head(ready[w]) = RunItem(scheduled[w][Begun(w) + 1])
                /\ ready'[w] = Tail(ready[w])]_vars
    /\ [][\A w \in Workers : \A b \in Calls :
            wcur[w] = b /\ invoked'[b] > invoked[b] =>
                \A i \in 1..(FirstScheduled(w, b) - 1) :
                    LET a == scheduled[w][i] IN Terminal(a) \/ task[a] # None]_vars

\* C15 witness: c1 and c2 were submitted in this order and both are
\* synchronous; c1 is finished and the run() of c2 has begun, its function
\* not yet invoked.
C15_Witness ==
    /\ scheduled[1] = <<"c1", "c2">> /\ wcur[1] = "c2" /\ invoked["c2"] = 0
    /\ fstate["c1"] = "FINISHED" /\ task["c1"] = None /\ invoked["c1"] = 1

\* The threads that have scheduled a call on worker w at line 179 and have
\* not yet completed line 180.
Counting(w) == {t \in Threads : targW[t] = w /\ tpc[t] \in {"s180", "s180w"}}

\* C16: _submitted_count never decreases and equals the number of calls
\* scheduled on the worker by the submits that have completed line 180,
\* however the submit calls of several threads interleave.
C16_CountsAcceptedSubmits ==
    /\ [](\A w \in Workers :
            submitted_count[w] = Len(scheduled[w]) - Cardinality(Counting(w)))
    /\ [][\A w \in Workers : submitted_count'[w] >= submitted_count[w]]_vars

\* C17: A future that run() has made RUNNING is never Cancelled: the
\* holder's cancel() leaves it as it is and it changes only by becoming
\* FINISHED; and it does become FINISHED, Fulfilled or Failed, when the
\* worker's thread keeps running, also when shutdown is signalled.
C17_RunningCallEnds ==
    /\ [][\A c \in Calls : fstate[c] = "RUNNING" => fstate'[c] \in {"RUNNING", "FINISHED"}]_vars
    /\ \A c \in Calls : (fstate[c] = "RUNNING") ~> (fstate[c] = "FINISHED")

\* The task of call c exists and has not finished _run_async.
TaskPending(c) == task[c] \notin {None, "done"}

\* C18: When fn returned a coroutine, run() returns with a task created on
\* the worker's loop and the future still RUNNING, with neither result nor
\* exception; the future of a call with a task becomes FINISHED only in a
\* step of that task on the loop that owns it, the step that ends
\* _run_async; a RUNNING future belongs to a run() in progress or to a task.
C18_AsyncResolvedInContinuation ==
    /\ [](\A c \in Calls :
            /\ TaskPending(c) => fstate[c] = "RUNNING" /\ fresult[c] = None /\ fexc[c] = None
            /\ task[c] = "done" => fstate[c] = "FINISHED"
            /\ fstate[c] = "RUNNING" => task[c] # None \/ \E w \in Workers : wcur[w] = c)
    /\ [][\A c \in Calls :
            /\ task[c] = None /\ task'[c] # None =>
                  /\ task'[c] = "created" /\ fstate'[c] = "RUNNING"
                  /\ wcur[taskLoop'[c]] = c /\ wcur'[taskLoop'[c]] = None
                  /\ ready'[taskLoop'[c]] = Append(ready[taskLoop'[c]], StepItem(c))
            /\ task[c] # None /\ fstate[c] # "FINISHED" /\ fstate'[c] = "FINISHED" =>
                  /\ task'[c] = "done"
                  /\ Head(ready[taskLoop[c]]) = StepItem(c)
                  /\ wcur[taskLoop[c]] = None]_vars

\* C18 witness: the asynchronous call c1 is suspended, its future RUNNING,
\* and the call c2, submitted after it, has been executed in between.
C18_Witness ==
    /\ scheduled[1] = <<"c1", "c2">> /\ task["c1"] = "suspended" /\ fstate["c1"] = "RUNNING"
    /\ invoked["c2"] = 1 /\ fstate["c2"] = "FINISHED" /\ task["c2"] = None
    /\ wstate[1] = "running"

\* A submit of call c has scheduled it and no submit of c is in progress:
\* submit(c) returned without error.
Accepted(c) ==
    /\ \E w \in Workers : \E i \in 1..Len(scheduled[w]) : scheduled[w][i] = c
    /\ \A t \in Threads : targC[t] # c

\* C19: Every call whose submit returned without error becomes terminal
\* (Fulfilled, Failed or Cancelled), wherever shutdown() falls between the
\* steps of submit and of the loop, when the threads keep running.
C19_NoResultLost ==
    \A c \in Calls : Accepted(c) ~> Terminal(c)

\* C20: No submit ends with the RuntimeError that Thread.start() raises on a
\* thread started before: submit starts the thread only of a worker that
\* was never started.
C20_ThreadStartedOnce ==
    /\ \A t \in Threads : tres[t] # "ThreadStartError"
    /\ \A t \in Threads :
          tpc[t] = "s173" /\ shutdown_event[targW[t]] = None => wstate[targW[t]] = "new"
====
